---- MODULE Spec2Model ----
(***************************************************************************)
(* The polling, freshness-verification and session-supervision engine of   *)
(* the visa appointment bot (v2.3, src/unnamed/part_000).                  *)
(*                                                                         *)
(* A flow is one activation of runBot(): it owns one browser session and   *)
(* is always suspended at one await of the source, named by pc[f].  The    *)
(* code between two awaits runs to completion, so one action is the code   *)
(* from one await to the next.  Flow 1 is the runBot() of the last line of *)
(* the file; a further flow exists only when the uncaughtException        *)
(* handler has called runBot() again.                                      *)
(*                                                                         *)
(* The clock advances in steps of UnitMins minutes.  Calendar dates are day *)
(* numbers; instants used in Date comparisons are hours.                   *)
(***************************************************************************)
EXTENDS Integers, FiniteSets, Sequences, TLC

\* ---------------------------------------------------------------- bounds
MaxFlows == 2          \* runBot activations that may coexist
MaxTime == 3           \* last clock value
UnitMins == 15         \* minutes in one step of the clock
MaxDate == 2           \* slot dates are the days 0..MaxDate
MaxToday == 1          \* the local calendar day runs from 0 to MaxToday
StartDay == 1          \* CONFIG.preferences.startDate (START_DATE)
EndDay == 1            \* CONFIG.preferences.endDate (END_DATE)
MaxChecks == 5         \* poll cycles modelled per session
ProbeEvery == 4        \* the liveness probe's period (100 in the source), scaled
BusyEvery == 2         \* the busy/expiry check's period (50 in the source), scaled
MaxSessionId == 3      \* proxy session ids are 0..MaxSessionId
MaxTokens == 2         \* pieces of a proxy username
MaxCPM == 700          \* target rates are 1..MaxCPM checks per minute
MaxTimes == 1          \* clock-time values of a slot are 1..MaxTimes

\* ------------------------------------------------------ program constants
NULL == 0 - 1                    \* null / undefined
intervalMins == 5                \* CONFIG.verifyCredentials.intervalMins, default '5'
verifyIntervalMs == intervalMins * 60 * 1000
cookieResetIntervalMs == 15 * 60 * 1000
Elapsed(t, since) == (t - since) * UnitMins * 60 * 1000   \* Date.now() - since, in ms
MaxBookingAttempts_Four == 3 + 1

MaxBookingAttempts == 3          \* for (let attempt = 1; attempt <= 3; attempt++)
WaitTimeoutMs == 100             \* waitForAvailableSlot(100)
WaitPollMs == 25                 \* setTimeout(r, 25)
LoginFailureLimit == 3           \* failed logins after which a credential is retired

Flows == 1..MaxFlows
Dates == 0..MaxDate
Times == 1..MaxTimes
TZOffsets == {0 - 5, 0, 5}       \* local time minus UTC, in hours

VARIABLES
    \* process-wide state (module-level lets of the source)
    availableDate,       \* date of the last first record seen, or NULL
    availableTime,       \* last captured time, or NULL
    lastResponseTime,    \* clock value of the last availability response, 0 at load
    closestSlotFound,    \* date of the tracked closest slot, or NULL
    bookingInProgress,   \* the mutual-exclusion flag
    verifyBrowser,       \* the flow whose verification browser the global holds, or NULL
    lastVerifyTime,      \* clock value of the last timer reset
    exited,              \* process exit code, NULL while the process runs
    \* environment
    now,                 \* Date.now()
    today,               \* the local calendar day
    tz,                  \* the zone offset of the host
    hasVerifyAccount,    \* VERIFY_EMAIL and VERIFY_PASSWORD are both set
    call,                \* the arguments of the pure function under study, or NULL
    result,              \* what it returned, NULL before the call
    \* per flow
    fl,                  \* the locals of runBot and of the functions it awaits
    vbOpen,              \* the verification browser the flow launched is open
    \* history
    observedMin,         \* earliest observed date that was on or after the day observed
    loginFailStreak,     \* consecutive LOGIN_FAILED outcomes of the primary credential
    accountLocked,       \* the sign-in page has shown 'account is locked'
    \* the other two programs of the repository
    bot,                 \* visa-bot.js: the VisaBot instance and the locals of its loops
    checker,             \* visa-bot.js: a SlotChecker, its page's listeners and responses
    okProc,              \* ok.js: the process and the files it shares with its launcher
    listener             \* part_000: the response handler's invocations that await a body

globals == <<availableDate, availableTime, lastResponseTime, closestSlotFound,
             bookingInProgress, verifyBrowser, lastVerifyTime, exited>>
envVars == <<now, today, tz, hasVerifyAccount>>
callVars == <<call, result>>
history == <<observedMin, loginFailStreak, accountLocked>>
progVars == <<bot, checker, okProc, listener>>
vars == <<globals, envVars, callVars, progVars, fl, vbOpen, history>>

\* fl[f]: pc is the await the flow is suspended at; browser is "none", "open",
\* "lost" (crashed or disconnected) or "closed" (closed by the program); slot is
\* what waitForAvailableSlot returned; mainDate, capturedVerifyDate and
\* dataIsFresh are the locals of a verification run; inFlight counts the
\* executions of performBooking in progress on the flow's page; booked is what
\* the last of them returned; errStreak counts the iterations in a row that the
\* catch of the loop has ended without restarting; pageText is what the busy
\* check read.  A local holds its initial value while it is out of scope.
\* heard records that the listener this activation registered has stored a slot.
NewFlow(p) ==
    [pc |-> p, browser |-> "none", slot |-> NULL, attempt |-> 0, checkCount |-> 0,
     lastCookieReset |-> 0, prevTime |-> 0, elapsed |-> 0,
     mainDate |-> NULL, capturedVerifyDate |-> NULL, dataIsFresh |-> TRUE,
     inFlight |-> 0, booked |-> FALSE, errStreak |-> 0, pageText |-> "",
     formSeen |-> "none", heard |-> FALSE]

Running == exited = NULL

\* ------------------------------------------------------------- utilities
\* new Date("YYYY-MM-DD"): midnight UTC of that day, in hours
ParseDate(d) == d * 24

\* const today = new Date(); today.setHours(0, 0, 0, 0): local midnight, in hours
LocalMidnight(day, zone) == day * 24 - zone

isDateInRange_NoEnd(dateStr, startDate, endDate) == ParseDate(dateStr) >= startDate

isDateInRange(dateStr, startDate, endDate) ==
    ParseDate(dateStr) >= startDate /\ ParseDate(dateStr) <= endDate

\* d.setHours(0, 0, 0, 0): midnight, in the host's zone, of the local day that
\* holds the instant
SetHoursZero(instant, zone) == ((instant + zone) \div 24) * 24 - zone

VisaBot_isDateInRange_Exclusive(dateStr, startDate, endDate, zone) ==
    /\ SetHoursZero(ParseDate(dateStr), zone) >= SetHoursZero(startDate, zone)
    /\ SetHoursZero(ParseDate(dateStr), zone) < SetHoursZero(endDate, zone)

\* isDateInRange of visa-bot.js: the three dates are normalised before the test
VisaBot_isDateInRange(dateStr, startDate, endDate, zone) ==
    LET date == SetHoursZero(ParseDate(dateStr), zone)
        start == SetHoursZero(startDate, zone)
        end == SetHoursZero(endDate, zone)
    IN  date >= start /\ date <= end

startDate == ParseDate(StartDay)
endDate == ParseDate(EndDay)

\* the tracker update of the response listener
TrackClosest(closest, d, day, zone) ==
    IF ParseDate(d) >= LocalMidnight(day, zone)
    THEN IF closest = NULL \/ ParseDate(d) < ParseDate(closest) THEN d ELSE closest
    ELSE closest

MinDate(a, b) == IF a = NULL THEN b ELSE IF b = NULL THEN a ELSE IF a < b THEN a ELSE b

\* the decision rule of verifyDataFreshness: TRUE is fresh
DataIsFresh_NoMissing(mainDate, verifyDate) ==
    ~(mainDate # NULL /\ verifyDate # NULL /\ mainDate # verifyDate)

DataIsFresh(mainDate, verifyDate) ==
    IF mainDate # NULL /\ verifyDate # NULL /\ mainDate # verifyDate THEN FALSE
    ELSE IF mainDate = NULL /\ verifyDate # NULL THEN FALSE
    ELSE TRUE

\* ------------------------------------------------- the monitoring cycle
\* The conditions of one cycle, in source order.  Each yields the await the
\* flow stops at next and the value of lastVerifyTime.
StageFromBusy(bip, cc) ==
    IF ~bip /\ cc % BusyEvery = 0 THEN "busy" ELSE "tick"

VerifyGuard(bip, t, lvt) == ~bip /\ Elapsed(t, lvt) > verifyIntervalMs

StageFromVerify(bip, t, lvt, cc) ==
    IF VerifyGuard(bip, t, lvt)
    THEN IF hasVerifyAccount
         THEN [pc |-> "v_launch", lvt |-> lvt]
         ELSE [pc |-> StageFromBusy(bip, cc), lvt |-> t]
    ELSE [pc |-> StageFromBusy(bip, cc), lvt |-> lvt]

StageFromProbe_OffByOne(bip, t, lvt, cc) ==
    IF cc % ProbeEvery = 1 THEN [pc |-> "probe", lvt |-> lvt]
    ELSE StageFromVerify(bip, t, lvt, cc)

StageFromProbe(bip, t, lvt, cc) ==
    IF cc % ProbeEvery = 0 THEN [pc |-> "probe", lvt |-> lvt]
    ELSE StageFromVerify(bip, t, lvt, cc)

StageFromCookie_DuringBooking(bip, t, lcr, lvt, cc) ==
    IF Elapsed(t, lcr) > cookieResetIntervalMs THEN [pc |-> "cookie", lvt |-> lvt]
    ELSE StageFromProbe(bip, t, lvt, cc)

StageFromCookie(bip, t, lcr, lvt, cc) ==
    IF ~bip /\ Elapsed(t, lcr) > cookieResetIntervalMs THEN [pc |-> "cookie", lvt |-> lvt]
    ELSE StageFromProbe(bip, t, lvt, cc)


\* One more cycle of while (true): checkCount++ and the conditions up to the
\* first await.  r is the flow's record, lvt the current lastVerifyTime.
Iterate(r, lvt) ==
    LET cc == r.checkCount + 1
        st == StageFromCookie(bookingInProgress, now, r.lastCookieReset, lvt, cc)
    IN  [rec |-> [r EXCEPT !.checkCount = cc, !.pc = st.pc, !.slot = NULL, !.attempt = 0],
         lvt |-> st.lvt]

\* what `await x.close()` through the global verifyBrowser closes
CloseVerifyRef(vb) ==
    IF verifyBrowser = NULL THEN vb ELSE [vb EXCEPT ![verifyBrowser] = FALSE]

\* browser.close(); await timeout; return runBot(): the activation is replaced
Restarted == NewFlow("start")

\* performBooking executions the response listener starts: it only logs
ListenerBookings_Instant(d) == IF isDateInRange(d, startDate, endDate) THEN 1 ELSE 0

ListenerBookings(d) == 0

\* the call performBooking(page, slot): availableTime = null, then the first await
BeginBooking(r, n) ==
    [r EXCEPT !.pc = "bk_time", !.attempt = n, !.inFlight = r.inFlight + 1]

\* ------------------------------------------------------------ tick delay
overhead == 100                  \* const overhead = 100
MsPerMinute == 60000             \* 60000 / targetCPM

getDelay_NoClamp(targetCPM) == (MsPerMinute - overhead * targetCPM) \div targetCPM

\* Math.max(0, Math.floor(60000 / targetCPM - overhead)): the quotient is a
\* real number, so the floor is taken of (60000 - overhead * targetCPM) / targetCPM
getDelay(targetCPM) ==
    LET floored == (MsPerMinute - overhead * targetCPM) \div targetCPM
    IN  IF floored > 0 THEN floored ELSE 0

\* ------------------------------------------------- verification identity
\* A proxy username is a sequence of pieces: a piece is either a 'sessid-<n>'
\* token or text that holds no such token.
TextToken == [kind |-> "text", id |-> 0]
SessidToken(n) == [kind |-> "sessid", id |-> n]
SessionIds == 0..MaxSessionId
Tokens == {TextToken} \cup {SessidToken(n) : n \in SessionIds}
Usernames == UNION {[1..k -> Tokens] : k \in 1..MaxTokens}

\* String.prototype.replace with a regular expression without the g flag: the
\* first match is replaced, a string without a match is returned as it is
RECURSIVE ReplaceFirstSessid(_, _)
ReplaceFirstSessid(u, id) ==
    IF u = <<>> THEN <<>>
    ELSE IF Head(u).kind = "sessid" THEN <<SessidToken(id)>> \o Tail(u)
    ELSE <<Head(u)>> \o ReplaceFirstSessid(Tail(u), id)

\* CONFIG.proxy.username.replace(/sessid-\d+/, `sessid-${verifySessionId}`)
verifyProxyUsername(username, verifySessionId) ==
    ReplaceFirstSessid(username, verifySessionId)

\* ----------------------------------------------------------- visa-bot.js
MaxSlotChecks == 3
MaxResponses == 2
MaxPending == 2
PollBudget == 2

maxLoginRetries == 3             \* CONFIG.bot.maxLoginRetries
maxConsecutiveErrors == 10       \* CONFIG.bot.maxConsecutiveErrors
contextRefreshInterval == 50     \* CONFIG.bot.contextRefreshInterval
MonitoringErrorLimit == 5        \* if (this.consecutiveErrors >= 5) break

\* new VisaBot() and the call bot.start() up to browserManager.initialize();
\* checksInContext counts the calls of checkForSlot on the current context
NewVisaBot ==
    [pc |-> "init", isRunning |-> TRUE, loginFailures |-> 0, consecutiveErrors |-> 0,
     sessionCheckCount |-> 0, checksInContext |-> 0]

\* a SlotChecker and the page it was built for: the handlers it has registered
\* on the page, the calls of response.json() not yet settled, the number of the
\* current call of checkForSlot and what the last call returned; the data of a
\* response is named by the number of the call whose handler took it; i is the
\* loop variable of BookingHandler.performBooking, timesArrived says that the
\* page has had a times response since that loop began
NewSlotChecker ==
    [pc |-> "idle", listeners |-> 0, responseReceived |-> FALSE,
     lastSlotData |-> NULL, lastTimeData |-> NULL, check |-> 0, elapsed |-> 0,
     pending |-> {}, returned |-> NULL, returnedIn |-> 0,
     i |-> 0, timesArrived |-> FALSE]

\* the ok.js process as runBot() is first called: banned and cooldown tell whether
\* this run has found or put the credential in the ban list, or written the
\* cooldown file; exitArg is the argument of the process.exit the main path is
\* about to reach, exitCode the code the process ended with; timeCounter is the
\* local of performBooking, timesRequested says that a click on a day has asked
\* for times that have not arrived, timeSeen that the listener has stored a
\* time since the running performBooking was entered
NewOkProcess ==
    [pc |-> "start", consecutiveLoginFailures |-> 0, banned |-> FALSE,
     cooldown |-> FALSE, shutdown |-> FALSE, retryCount |-> 0, exitArg |-> NULL,
     exitCode |-> NULL, exitBy |-> "none",
     timeCounter |-> 0, timesRequested |-> FALSE, timeSeen |-> FALSE]

\* ------------------------------------------------------------------ Init
\* the module has been loaded and the last line of the file has called runBot()
\* no response has reached the handler of part_000: pending holds the
\* invocations suspended at `await response.json()`, arrived counts the
\* responses, latest is the first record of the availability list that arrived last
NewListener == [pending |-> {}, arrived |-> 0, latest |-> NULL]

Boot ==
    /\ availableDate = NULL
    /\ availableTime = NULL
    /\ lastResponseTime = 0
    /\ closestSlotFound = NULL
    /\ bookingInProgress = FALSE
    /\ verifyBrowser = NULL
    /\ lastVerifyTime = 1
    /\ exited = NULL
    /\ now = 1
    /\ fl = [f \in Flows |-> IF f = 1 THEN NewFlow("start") ELSE NewFlow("idle")]
    /\ vbOpen = [f \in Flows |-> FALSE]
    /\ observedMin = NULL
    /\ loginFailStreak = 0
    /\ accountLocked = FALSE
    /\ bot = NewVisaBot
    /\ checker = NewSlotChecker
    /\ okProc = NewOkProcess
    /\ listener = NewListener

\* no function is being studied on its own
NoCall == call = NULL /\ result = NULL

\* ----------------------------------------------------------- environment
Tick ==
    /\ Running
    /\ now < MaxTime
    /\ now' = now + 1
    /\ UNCHANGED <<globals, today, tz, hasVerifyAccount, callVars, progVars, fl, vbOpen, history>>

DayPasses ==
    /\ Running
    /\ today < MaxToday
    /\ today' = today + 1
    /\ UNCHANGED <<globals, now, tz, hasVerifyAccount, callVars, progVars, fl, vbOpen, history>>

\* the primary browser crashes or loses its connection
BrowserLost(f) ==
    /\ Running
    /\ fl[f].browser = "open"
    /\ fl' = [fl EXCEPT ![f].browser = "lost"]
    /\ UNCHANGED <<globals, envVars, callVars, progVars, vbOpen, history>>

\* process.on('uncaughtException'): closes the verification browser and calls
\* runBot() again after ten seconds; the activations that exist keep running.
UncaughtException ==
    /\ Running
    /\ \E f \in Flows :
        /\ fl[f].pc = "idle"
        /\ \A g \in Flows : g < f => fl[g].pc # "idle"
        /\ fl' = [fl EXCEPT ![f] = NewFlow("start")]
    /\ vbOpen' = CloseVerifyRef(vbOpen)
    /\ verifyBrowser' = NULL
    /\ UNCHANGED <<availableDate, availableTime, lastResponseTime, closestSlotFound,
                   bookingInProgress, lastVerifyTime, exited, envVars, callVars, progVars, history>>

\* ------------------------------------------------------ response listener
Listening(f) ==
    /\ fl[f].browser = "open"
    /\ fl[f].pc \notin {"idle", "start", "login"}

\* page.on('response'): a non-empty availability list whose first record is d
OnDatesResponse(f, d) ==
    /\ Running
    /\ Listening(f)
    /\ availableDate' = d
    /\ lastResponseTime' = now
    /\ closestSlotFound' = TrackClosest(closestSlotFound, d, today, tz)
    /\ fl' = [fl EXCEPT ![f].inFlight = @ + ListenerBookings(d), ![f].heard = TRUE]
    /\ observedMin' = IF d >= today THEN MinDate(observedMin, d) ELSE observedMin
    /\ UNCHANGED <<availableTime, bookingInProgress, verifyBrowser, lastVerifyTime,
                   exited, envVars, callVars, progVars, vbOpen, loginFailStreak, accountLocked>>

\* page.on('response'): a times-for-a-date body with a first time t
OnTimesResponse(f, t) ==
    /\ Running
    /\ Listening(f)
    /\ availableTime' = t
    /\ UNCHANGED <<availableDate, lastResponseTime, closestSlotFound, bookingInProgress,
                   verifyBrowser, lastVerifyTime, exited, envVars, callVars, progVars, fl, vbOpen, history>>

\* page.on('response'): an empty list, another URL, a body that does not parse
OnIgnoredResponse(f) ==
    /\ Running
    /\ Listening(f)
    /\ UNCHANGED vars

\* ----------------------------------------------------------------- runBot
Bump(n) == IF n < LoginFailureLimit THEN n + 1 ELSE n

\* an activation that ends without calling runBot() again
OuterCatch_Dies(f) ==
    /\ fl' = [fl EXCEPT ![f] = NewFlow("idle")]
    /\ vbOpen' = CloseVerifyRef(vbOpen)

\* the outer catch: close the browser, close (not clear) the verification
\* browser, wait ten seconds, return runBot()
OuterCatch(f) ==
    /\ fl' = [fl EXCEPT ![f] = Restarted]
    /\ vbOpen' = CloseVerifyRef(vbOpen)

\* a restart decided inside the loop: browser.close(), wait, return runBot()
LoopRestart(f) ==
    fl' = [fl EXCEPT ![f] = Restarted]

\* verifyProxyIP() returned null: process.exit(1)
ProxyFailed(f) ==
    /\ Running
    /\ fl[f].pc = "start"
    /\ exited' = 1
    /\ UNCHANGED <<availableDate, availableTime, lastResponseTime, closestSlotFound,
                   bookingInProgress, verifyBrowser, lastVerifyTime, envVars, callVars, progVars, fl,
                   vbOpen, history>>

\* chromium.launch, newContext, newPage, setupResponseListener
Launch(f) ==
    /\ Running
    /\ fl[f].pc = "start"
    /\ fl' = [fl EXCEPT ![f].pc = "login", ![f].browser = "open"]
    /\ UNCHANGED <<globals, envVars, callVars, progVars, vbOpen, history>>

LaunchError(f) ==
    /\ Running
    /\ fl[f].pc = "start"
    /\ OuterCatch(f)
    /\ UNCHANGED <<globals, envVars, callVars, progVars, history>>

\* login(page) returned true
LoginOk(f) ==
    /\ Running
    /\ fl[f].pc = "login"
    /\ fl[f].browser = "open"
    /\ fl' = [fl EXCEPT ![f].pc = "nav"]
    /\ loginFailStreak' = 0
    /\ UNCHANGED <<globals, envVars, callVars, progVars, vbOpen, observedMin, accountLocked>>

\* login(page) threw LOGIN_FAILED: the page is still the sign_in page
LoginFailed(f) ==
    /\ Running
    /\ fl[f].pc = "login"
    /\ fl[f].browser = "open"
    /\ OuterCatch(f)
    /\ loginFailStreak' = Bump(loginFailStreak)
    /\ UNCHANGED <<globals, envVars, callVars, progVars, observedMin, accountLocked>>

\* login(page) threw anything else (SYSTEM_BUSY, ACCOUNT_LOCKED, a timeout, a lost page)
LoginError(f) ==
    /\ Running
    /\ fl[f].pc = "login"
    /\ OuterCatch(f)
    /\ UNCHANGED <<globals, envVars, callVars, progVars, history>>

\* login(page) read 'account is locked' on the sign-in page and threw
\* ACCOUNT_LOCKED: the outer catch handles it like every other error
LoginLocked(f) ==
    /\ Running
    /\ fl[f].pc = "login"
    /\ fl[f].browser = "open"
    /\ OuterCatch(f)
    /\ accountLocked' = TRUE
    /\ UNCHANGED <<globals, envVars, callVars, progVars, observedMin, loginFailStreak>>

\* navigateToAppointmentPage(page) returned: the timers start, the loop is entered
NavigateOk(f) ==
    /\ Running
    /\ fl[f].pc = "nav"
    /\ fl[f].browser = "open"
    /\ LET it == Iterate([fl[f] EXCEPT !.lastCookieReset = now, !.checkCount = 0], now)
       IN  /\ fl' = [fl EXCEPT ![f] = it.rec]
           /\ lastVerifyTime' = it.lvt
    /\ UNCHANGED <<availableDate, availableTime, lastResponseTime, closestSlotFound,
                   bookingInProgress, verifyBrowser, exited, envVars, callVars, progVars, vbOpen, history>>

NavigateError(f) ==
    /\ Running
    /\ fl[f].pc = "nav"
    /\ OuterCatch(f)
    /\ UNCHANGED <<globals, envVars, callVars, progVars, history>>

\* ---------------------------------------------------------- cookie reset
\* clearCookies, login, navigateToAppointmentPage all returned
CookieResetOk(f) ==
    /\ Running
    /\ fl[f].pc = "cookie"
    /\ fl[f].browser = "open"
    /\ LET st == StageFromProbe(bookingInProgress, now, lastVerifyTime, fl[f].checkCount)
       IN  /\ fl' = [fl EXCEPT ![f].lastCookieReset = now, ![f].pc = st.pc]
           /\ lastVerifyTime' = st.lvt
    /\ loginFailStreak' = 0
    /\ UNCHANGED <<availableDate, availableTime, lastResponseTime, closestSlotFound,
                   bookingInProgress, verifyBrowser, exited, envVars, callVars, progVars, vbOpen,
                   observedMin, accountLocked>>

\* the re-login threw LOGIN_FAILED: full restart
CookieResetLoginFailed(f) ==
    /\ Running
    /\ fl[f].pc = "cookie"
    /\ fl[f].browser = "open"
    /\ LoopRestart(f)
    /\ loginFailStreak' = Bump(loginFailStreak)
    /\ UNCHANGED <<globals, envVars, callVars, progVars, vbOpen, observedMin, accountLocked>>

\* anything else in the cookie reset threw: full restart
CookieResetError(f) ==
    /\ Running
    /\ fl[f].pc = "cookie"
    /\ LoopRestart(f)
    /\ UNCHANGED <<globals, envVars, callVars, progVars, vbOpen, history>>

\* ------------------------------------------------------- liveness probe
ProbeOk(f) ==
    /\ Running
    /\ fl[f].pc = "probe"
    /\ fl[f].browser = "open"
    /\ LET st == StageFromVerify(bookingInProgress, now, lastVerifyTime, fl[f].checkCount)
       IN  /\ fl' = [fl EXCEPT ![f].pc = st.pc]
           /\ lastVerifyTime' = st.lvt
    /\ UNCHANGED <<availableDate, availableTime, lastResponseTime, closestSlotFound,
                   bookingInProgress, verifyBrowser, exited, envVars, callVars, progVars, vbOpen, history>>

\* a probe whose failure does not end the session
ProbeFailed_Ignored(f) ==
    /\ Running
    /\ fl[f].pc = "probe"
    /\ fl[f].browser # "open"
    /\ LET st == StageFromVerify(bookingInProgress, now, lastVerifyTime, fl[f].checkCount)
       IN  /\ fl' = [fl EXCEPT ![f].pc = st.pc]
           /\ lastVerifyTime' = st.lvt
    /\ UNCHANGED <<availableDate, availableTime, lastResponseTime, closestSlotFound,
                   bookingInProgress, verifyBrowser, exited, envVars, callVars, progVars, vbOpen, history>>

\* page.evaluate(() => true) threw: connection lost, restart
ProbeFailed(f) ==
    /\ Running
    /\ fl[f].pc = "probe"
    /\ fl[f].browser # "open"
    /\ LoopRestart(f)
    /\ UNCHANGED <<globals, envVars, callVars, progVars, vbOpen, history>>

\* the value the catch block of verifyDataFreshness returns
CatchVerdict_Stale == FALSE

CatchVerdict == TRUE

\* what the caller does with the verdict: TRUE is restart
RestartOnStale_Never(fresh) == FALSE

RestartOnStale(fresh) == ~fresh

\* -------------------------------------------------- verifyDataFreshness
\* the awaits of verifyDataFreshness and of the caller's stale branch
VerifyPcs == {"v_launch", "v_login", "v_settle", "v_close", "v_close_err"}
VerifyRetPcs == {"v_ret", "v_ret_rej", "v_ret_err"}

\* chromium.launch for the verification browser, newContext, newPage
VerifyLaunchOk(f) ==
    /\ Running
    /\ fl[f].pc = "v_launch"
    /\ verifyBrowser' = f
    /\ vbOpen' = [vbOpen EXCEPT ![f] = TRUE]
    /\ fl' = [fl EXCEPT ![f].pc = "v_login", ![f].capturedVerifyDate = NULL]
    /\ UNCHANGED <<availableDate, availableTime, lastResponseTime, closestSlotFound,
                   bookingInProgress, lastVerifyTime, exited, envVars, callVars, progVars, history>>

\* the verification page's own response listener
VerifyResponse(f, d) ==
    /\ Running
    /\ fl[f].pc = "v_settle"
    /\ vbOpen[f]
    /\ fl' = [fl EXCEPT ![f].capturedVerifyDate = d]
    /\ UNCHANGED <<globals, envVars, callVars, progVars, vbOpen, history>>

\* the sign-in form was submitted and the page left sign_in; the navigation to
\* the appointment page and the 3 s settle wait follow
VerifyLoginOk(f) ==
    /\ Running
    /\ fl[f].pc = "v_login"
    /\ vbOpen[f]
    /\ fl' = [fl EXCEPT ![f].pc = "v_settle"]
    /\ UNCHANGED <<globals, envVars, callVars, progVars, vbOpen, history>>

\* verifyPage.url() still holds sign_in: await verifyBrowser.close(); return true
VerifyLoginRejected(f) ==
    /\ Running
    /\ fl[f].pc = "v_login"
    /\ vbOpen[f]
    /\ verifyBrowser # NULL
    /\ vbOpen' = CloseVerifyRef(vbOpen)
    /\ fl' = [fl EXCEPT ![f].pc = "v_ret_rej", ![f].dataIsFresh = TRUE]
    /\ UNCHANGED <<globals, envVars, callVars, progVars, history>>

\* the settle wait is over: mainDate and verifyDate are read, and
\* verifyBrowser.close() is called
VerifySettled(f) ==
    /\ Running
    /\ fl[f].pc = "v_settle"
    /\ vbOpen[f]
    /\ verifyBrowser # NULL
    /\ vbOpen' = CloseVerifyRef(vbOpen)
    /\ fl' = [fl EXCEPT ![f].pc = "v_close", ![f].mainDate = availableDate]
    /\ UNCHANGED <<globals, envVars, callVars, progVars, history>>

\* close() returned: verifyBrowser = null, the timer is reset, the dates are
\* compared and the verdict is returned
VerifyCompare(f) ==
    /\ Running
    /\ fl[f].pc = "v_close"
    /\ verifyBrowser' = NULL
    /\ lastVerifyTime' = now
    /\ fl' = [fl EXCEPT ![f].pc = "v_ret",
                        ![f].dataIsFresh = DataIsFresh(fl[f].mainDate,
                                                       fl[f].capturedVerifyDate)]
    /\ UNCHANGED <<availableDate, availableTime, lastResponseTime, closestSlotFound,
                   bookingInProgress, exited, envVars, callVars, progVars, vbOpen, history>>

\* something threw inside the try: the launch, a navigation, a timeout, a page
\* that is gone, or .close() of a verifyBrowser that is null.  The catch block
\* closes whatever verifyBrowser refers to.
VerifyError(f) ==
    /\ Running
    /\ fl[f].pc \in {"v_launch", "v_login", "v_settle"}
    /\ IF verifyBrowser # NULL
       THEN /\ vbOpen' = CloseVerifyRef(vbOpen)
            /\ fl' = [fl EXCEPT ![f].pc = "v_close_err"]
            /\ UNCHANGED lastVerifyTime
       ELSE /\ lastVerifyTime' = now
            /\ fl' = [fl EXCEPT ![f].pc = "v_ret_err", ![f].dataIsFresh = CatchVerdict]
            /\ UNCHANGED vbOpen
    /\ UNCHANGED <<availableDate, availableTime, lastResponseTime, closestSlotFound,
                   bookingInProgress, verifyBrowser, exited, envVars, callVars, progVars, history>>

\* the catch block after its close(): verifyBrowser = null, the timer is
\* reset, true is returned
VerifyCaught(f) ==
    /\ Running
    /\ fl[f].pc = "v_close_err"
    /\ verifyBrowser' = NULL
    /\ lastVerifyTime' = now
    /\ fl' = [fl EXCEPT ![f].pc = "v_ret_err", ![f].dataIsFresh = CatchVerdict]
    /\ UNCHANGED <<availableDate, availableTime, lastResponseTime, closestSlotFound,
                   bookingInProgress, exited, envVars, callVars, progVars, vbOpen, history>>

\* the caller receives dataIsFresh: a stale verdict closes the browser and
\* waits 3 s before runBot(); otherwise the cycle goes on
VerifyReturned(f) ==
    /\ Running
    /\ fl[f].pc \in VerifyRetPcs
    /\ LET r == [fl[f] EXCEPT !.mainDate = NULL, !.capturedVerifyDate = NULL,
                              !.dataIsFresh = TRUE]
       IN  IF RestartOnStale(fl[f].dataIsFresh)
           THEN fl' = [fl EXCEPT ![f] = [r EXCEPT !.pc = "v_stale", !.browser = "closed"]]
           ELSE fl' = [fl EXCEPT ![f] = [r EXCEPT !.pc =
                            StageFromBusy(bookingInProgress, r.checkCount)]]
    /\ UNCHANGED <<globals, envVars, callVars, progVars, vbOpen, history>>

\* the 3 s wait of the stale branch is over: return runBot()
StaleRestart(f) ==
    /\ Running
    /\ fl[f].pc = "v_stale"
    /\ LoopRestart(f)
    /\ UNCHANGED <<globals, envVars, callVars, progVars, vbOpen, history>>

\* ------------------------------------------------- busy / expiry check
\* what the page can say, in lower case; "" also stands for any other text and
\* for the '' that the .catch yields on a page that is gone
PageTexts == {"", "system is busy", "too many requests", "sign in"}

\* const pageText = await page.innerText('body').catch(() => '')
BusyRead(f, text) ==
    /\ Running
    /\ fl[f].pc = "busy"
    /\ fl[f].browser # "open" => text = ""
    /\ fl' = [fl EXCEPT ![f].pc = "busy_read", ![f].pageText = text]
    /\ UNCHANGED <<globals, envVars, callVars, progVars, vbOpen, history>>

\* neither test matched: on to the tick
BusyClear(f) ==
    /\ Running
    /\ fl[f].pc = "busy_read"
    /\ fl[f].pageText \notin {"system is busy", "sign in"}
    /\ fl' = [fl EXCEPT ![f].pc = "tick", ![f].pageText = ""]
    /\ UNCHANGED <<globals, envVars, callVars, progVars, vbOpen, history>>

\* 'system is busy': wait 60 s, continue
BusyDetected(f) ==
    /\ Running
    /\ fl[f].pc = "busy_read"
    /\ fl[f].pageText = "system is busy"
    /\ fl' = [fl EXCEPT ![f].pc = "busywait", ![f].pageText = ""]
    /\ UNCHANGED <<globals, envVars, callVars, progVars, vbOpen, history>>

\* 'sign in' / 'log in': session expired, restart
SessionExpired(f) ==
    /\ Running
    /\ fl[f].pc = "busy_read"
    /\ fl[f].pageText = "sign in"
    /\ LoopRestart(f)
    /\ UNCHANGED <<globals, envVars, callVars, progVars, vbOpen, history>>

\* a page.waitForTimeout of the loop returned and the next cycle begins
NextCycle(f) ==
    /\ Running
    /\ fl[f].pc \in {"busywait", "delay"}
    /\ fl[f].browser = "open"
    /\ fl[f].checkCount < MaxChecks
    /\ LET it == Iterate([fl[f] EXCEPT !.errStreak = 0], lastVerifyTime)
       IN  /\ fl' = [fl EXCEPT ![f] = it.rec]
           /\ lastVerifyTime' = it.lvt
    /\ UNCHANGED <<availableDate, availableTime, lastResponseTime, closestSlotFound,
                   bookingInProgress, verifyBrowser, exited, envVars, callVars, progVars, vbOpen, history>>

\* a page.waitForTimeout of the loop threw with 'closed' or 'Target' in the
\* message: the catch of the loop restarts
LoopErrorClosed(f) ==
    /\ Running
    /\ fl[f].pc \in {"busywait", "bk_pause", "delay"}
    /\ fl[f].browser = "lost"
    /\ LoopRestart(f)
    /\ UNCHANGED <<globals, envVars, callVars, progVars, vbOpen, history>>

\* it threw with another message: the catch of the loop continues the loop
LoopErrorOther(f) ==
    /\ Running
    /\ fl[f].pc \in {"busywait", "bk_pause", "delay"}
    /\ fl[f].browser = "lost"
    /\ fl[f].checkCount < MaxChecks
    /\ LET it == Iterate([fl[f] EXCEPT !.errStreak = @ + 1], lastVerifyTime)
       IN  /\ fl' = [fl EXCEPT ![f] = it.rec]
           /\ lastVerifyTime' = it.lvt
    /\ UNCHANGED <<availableDate, availableTime, lastResponseTime, closestSlotFound,
                   bookingInProgress, verifyBrowser, exited, envVars, callVars, progVars, vbOpen, history>>

\* ------------------------------------------------------------ poll tick
\* resetSelection(page) returned (its errors are swallowed);
\* waitForAvailableSlot(100) starts: prevTime = lastResponseTime, elapsed = 0
TickRequest(f) ==
    /\ Running
    /\ fl[f].pc = "tick"
    /\ fl' = [fl EXCEPT ![f].pc = "wait", ![f].prevTime = lastResponseTime,
                        ![f].elapsed = 0]
    /\ UNCHANGED <<globals, envVars, callVars, progVars, vbOpen, history>>

WaitStep_NoTimeout(f) ==
    /\ Running
    /\ fl[f].pc = "wait"
    /\ lastResponseTime = fl[f].prevTime
    /\ fl' = [fl EXCEPT ![f].elapsed = @ + WaitPollMs]
    /\ UNCHANGED <<globals, envVars, callVars, progVars, vbOpen, history>>

\* one turn of while (lastResponseTime === prevTime && elapsed < timeoutMs)
WaitStep(f) ==
    /\ Running
    /\ fl[f].pc = "wait"
    /\ lastResponseTime = fl[f].prevTime /\ fl[f].elapsed < WaitTimeoutMs
    /\ fl' = [fl EXCEPT ![f].elapsed = @ + WaitPollMs]
    /\ UNCHANGED <<globals, envVars, callVars, progVars, vbOpen, history>>

\* waitForAvailableSlot returned availableDate; the slot is matched against
\* the window, and a match sets the flag and calls performBooking
WaitDone(f) ==
    /\ Running
    /\ fl[f].pc = "wait"
    /\ ~(lastResponseTime = fl[f].prevTime /\ fl[f].elapsed < WaitTimeoutMs)
    /\ LET s == availableDate
           r == [fl[f] EXCEPT !.prevTime = 0, !.elapsed = 0]
       IN  IF s # NULL /\ isDateInRange(s, startDate, endDate)
           THEN /\ bookingInProgress' = TRUE
                /\ availableTime' = NULL
                /\ fl' = [fl EXCEPT ![f] = BeginBooking([r EXCEPT !.slot = s], 1)]
           ELSE /\ fl' = [fl EXCEPT ![f] = [r EXCEPT !.pc = "delay"]]
                /\ UNCHANGED <<bookingInProgress, availableTime>>
    /\ UNCHANGED <<availableDate, lastResponseTime, closestSlotFound, verifyBrowser,
                   lastVerifyTime, exited, envVars, callVars, progVars, vbOpen, history>>

\* -------------------------------------------------------- performBooking
BookingPcs == {"bk_time", "bk_submit"}

\* performBooking returns booked to the await of the attempt loop
\* formSeen keeps what the page held when performBooking asked for the form:
\* "present", "absent", or "gone" when there was no page left to hold it
BookingReturned(f, booked, seen) ==
    fl' = [fl EXCEPT ![f].inFlight = @ - 1, ![f].pc = "bk_ret", ![f].booked = booked,
                     ![f].formSeen = seen]

\* await page.$('#appointments_submit').catch(() => null): the element, or null
\* when there is none and also when the call fails
StillOnForm(formPresent, queryOk) == queryOk /\ formPresent

FormState(alive, formPresent) ==
    IF ~alive THEN "gone" ELSE IF formPresent THEN "present" ELSE "absent"

\* if (booked) { ... }: where the attempt loop goes with the returned value
AttemptOutcome_Retry(booked) == "bk_pause"

AttemptOutcome(booked) == IF booked THEN "bk_close" ELSE "bk_pause"

\* the await of performBooking resumed: on success browser.close() is called,
\* otherwise the 50 ms pause starts
AttemptReturned(f) ==
    /\ Running
    /\ fl[f].pc = "bk_ret"
    /\ LET to == AttemptOutcome(fl[f].booked)
       IN  fl' = [fl EXCEPT ![f].pc = to,
                            ![f].booked = (to = "bk_close"),
                            ![f].formSeen = "none",
                            ![f].browser = IF to = "bk_close" THEN "closed" ELSE @]
    /\ UNCHANGED <<globals, envVars, callVars, progVars, vbOpen, history>>

\* browser.close() returned: verifyBrowser.close(), process.exit(0)
BookingExit(f) ==
    /\ Running
    /\ fl[f].pc = "bk_close"
    /\ exited' = 0
    /\ vbOpen' = CloseVerifyRef(vbOpen)
    /\ UNCHANGED <<availableDate, availableTime, lastResponseTime, closestSlotFound,
                   bookingInProgress, verifyBrowser, lastVerifyTime, envVars, callVars, progVars, fl,
                   history>>

\* step 1 (the date is set) or one turn of while (!availableTime) (a 10 ms
\* wait and a read of the dropdown) returned; dt is what the dropdown gave
BookTimePoll(f, dt) ==
    /\ Running
    /\ fl[f].pc = "bk_time"
    /\ fl[f].browser = "open"
    /\ IF dt # NULL
       THEN /\ availableTime' = dt
            /\ fl' = [fl EXCEPT ![f].pc = "bk_submit"]
       ELSE /\ UNCHANGED availableTime
            /\ fl' = [fl EXCEPT ![f].pc = IF availableTime = NULL THEN "bk_time"
                                          ELSE "bk_submit"]
    /\ UNCHANGED <<availableDate, lastResponseTime, closestSlotFound, bookingInProgress,
                   verifyBrowser, lastVerifyTime, exited, envVars, callVars, progVars, history>>
    /\ UNCHANGED vbOpen

\* steps 3 to 5 returned; page.$('#appointments_submit') tells the outcome
BookSubmitted(f, formPresent, queryOk) ==
    /\ Running
    /\ fl[f].pc = "bk_submit"
    /\ fl[f].browser = "open"
    /\ BookingReturned(f, ~StillOnForm(formPresent, queryOk), FormState(TRUE, formPresent))
    /\ UNCHANGED <<globals, envVars, callVars, progVars, vbOpen, history>>

\* a step threw; the catch block asks page.$ again, which yields null on a
\* page that is gone
BookThrew(f, formPresent, queryOk) ==
    /\ Running
    /\ fl[f].pc \in BookingPcs
    /\ fl[f].browser # "open" => ~queryOk /\ formPresent
    /\ BookingReturned(f, ~StillOnForm(formPresent, queryOk),
                       FormState(fl[f].browser = "open", formPresent))
    /\ UNCHANGED <<globals, envVars, callVars, progVars, vbOpen, history>>

\* page.waitForTimeout(50) returned: the next attempt, or the end of the loop
BookPauseDone(f) ==
    /\ Running
    /\ fl[f].pc = "bk_pause"
    /\ fl[f].browser = "open"
    /\ IF fl[f].attempt < MaxBookingAttempts
       THEN /\ availableTime' = NULL
            /\ fl' = [fl EXCEPT ![f] = BeginBooking(fl[f], fl[f].attempt + 1)]
            /\ UNCHANGED bookingInProgress
       ELSE /\ bookingInProgress' = FALSE
            /\ fl' = [fl EXCEPT ![f].pc = "delay"]
            /\ UNCHANGED availableTime
    /\ UNCHANGED <<availableDate, lastResponseTime, closestSlotFound, verifyBrowser,
                   lastVerifyTime, exited, envVars, callVars, progVars, vbOpen, history>>

\* ------------------------------------------------- the process as a whole
\* One activation of runBot() on a host that keeps UTC; day 0 is over.
Init ==
    /\ Boot
    /\ today = 1
    /\ tz = 0
    /\ hasVerifyAccount \in BOOLEAN
    /\ NoCall

Responses(f) ==
    \/ \E d \in Dates : OnDatesResponse(f, d)
    \/ \E t \in Times : OnTimesResponse(f, t)
    \/ OnIgnoredResponse(f)
    \/ \E d \in Dates : VerifyResponse(f, d)

Session(f) ==
    \/ ProxyFailed(f) \/ Launch(f) \/ LaunchError(f)
    \/ LoginOk(f) \/ LoginFailed(f) \/ LoginError(f)
    \/ NavigateOk(f) \/ NavigateError(f)
    \/ CookieResetOk(f) \/ CookieResetLoginFailed(f) \/ CookieResetError(f)
    \/ ProbeOk(f) \/ ProbeFailed(f)
    \/ \E text \in PageTexts : BusyRead(f, text)
    \/ BusyClear(f) \/ BusyDetected(f) \/ SessionExpired(f)
    \/ NextCycle(f) \/ LoopErrorClosed(f) \/ LoopErrorOther(f)
    \/ TickRequest(f) \/ WaitStep(f) \/ WaitDone(f)

Verification(f) ==
    \/ VerifyLaunchOk(f) \/ VerifyLoginOk(f) \/ VerifyLoginRejected(f)
    \/ VerifySettled(f) \/ VerifyCompare(f) \/ VerifyError(f) \/ VerifyCaught(f)
    \/ VerifyReturned(f) \/ StaleRestart(f)

Booking(f) ==
    \/ \E dt \in Times \cup {NULL} : BookTimePoll(f, dt)
    \/ \E b, q \in BOOLEAN : BookSubmitted(f, b, q)
    \/ \E b, q \in BOOLEAN : BookThrew(f, b, q)
    \/ AttemptReturned(f) \/ BookingExit(f)
    \/ BookPauseDone(f)

Next ==
    \/ Tick
    \/ \E f \in Flows :
        BrowserLost(f) \/ Responses(f) \/ Session(f) \/ Verification(f) \/ Booking(f)

Spec == Init /\ [][Next]_vars

\* ------------------------------------------------- the response listener
\* The listener of one session on hosts of every zone, across midnight.
InitObserver ==
    /\ Boot
    /\ today = 0
    /\ tz \in TZOffsets
    /\ hasVerifyAccount = FALSE
    /\ NoCall

NextObserver ==
    \/ Tick
    \/ DayPasses
    \/ \E f \in Flows :
        \/ Launch(f) \/ LoginOk(f) \/ NavigateOk(f)
        \/ \E d \in Dates : OnDatesResponse(f, d)
        \/ \E t \in Times : OnTimesResponse(f, t)
        \/ OnIgnoredResponse(f)

SpecObserver == InitObserver /\ [][NextObserver]_vars

\* --------------------------------------- the uncaughtException handler
\* The activations that coexist once the handler has called runBot() again.
\* Every slot offered is StartDay, the site accepts both credentials, and a
\* session ends only by the loss of its browser.
NextHandler ==
    \/ Tick
    \/ UncaughtException
    \/ \E f \in Flows :
        \/ Launch(f) \/ LoginOk(f) \/ LoginError(f) \/ NavigateOk(f)
        \/ BrowserLost(f) \/ LoopErrorClosed(f)
        \/ OnDatesResponse(f, StartDay)
        \/ \E t \in Times : OnTimesResponse(f, t)
        \/ ProbeOk(f) \/ ProbeFailed(f)
        \/ BusyRead(f, "") \/ BusyClear(f)
        \/ NextCycle(f) \/ TickRequest(f) \/ WaitDone(f)
        \/ VerifyLaunchOk(f) \/ VerifyLoginOk(f) \/ VerifySettled(f)
        \/ VerifyCompare(f) \/ VerifyError(f) \/ VerifyCaught(f) \/ VerifyReturned(f)
        \/ BookTimePoll(f, NULL)
        \/ BookSubmitted(f, TRUE, TRUE)
        \/ AttemptReturned(f)
        \/ BookPauseDone(f)

InitHandler ==
    /\ Boot
    /\ today = 1
    /\ tz = 0
    /\ hasVerifyAccount = TRUE
    /\ NoCall

SpecHandler == InitHandler /\ [][NextHandler]_vars

\* ------------------------------------------------------- the sign-in phase
\* One activation up to the entry of the monitoring loop, on a site that may
\* report the account as locked.
InitLogin ==
    /\ Boot
    /\ today = 1
    /\ tz = 0
    /\ hasVerifyAccount \in BOOLEAN
    /\ NoCall

NextLogin ==
    \/ Tick
    \/ \E f \in Flows :
        \/ ProxyFailed(f) \/ Launch(f) \/ LaunchError(f)
        \/ LoginOk(f) \/ LoginFailed(f) \/ LoginLocked(f) \/ LoginError(f)
        \/ NavigateOk(f) \/ NavigateError(f)
        \/ BrowserLost(f)

SpecLogin == InitLogin /\ [][NextLogin]_vars

\* ------------------------------------- the verification proxy identity
\* verifyDataFreshness builds its proxy username from the configured one and a
\* random session id; the primary browser uses the configured one.
InitProxy ==
    /\ Boot
    /\ today = 1
    /\ tz = 0
    /\ hasVerifyAccount = TRUE
    /\ call \in [username : Usernames]
    /\ result = <<>>

GenerateVerifyIdentity(verifySessionId) ==
    /\ result = <<>>
    /\ result' = verifyProxyUsername(call.username, verifySessionId)
    /\ UNCHANGED <<globals, envVars, call, progVars, fl, vbOpen, history>>

NextProxy == \E verifySessionId \in SessionIds : GenerateVerifyIdentity(verifySessionId)

SpecProxy == InitProxy /\ [][NextProxy]_vars

\* ----------------------------------------------------- the date window
\* isDateInRange called with a slot date and a window whose ends are, as in
\* CONFIG.preferences, dates parsed from 'YYYY-MM-DD', on hosts of every zone.
InitRange ==
    /\ Boot
    /\ today = 1
    /\ tz \in TZOffsets
    /\ hasVerifyAccount = TRUE
    /\ call \in [dateStr : Dates, start : Dates, end : Dates]
    /\ result = [returned |-> FALSE, part_000 |-> FALSE, visaBot |-> FALSE]

CallIsDateInRange ==
    /\ ~result.returned
    /\ result' = [returned |-> TRUE,
                  part_000 |-> isDateInRange(call.dateStr, ParseDate(call.start),
                                             ParseDate(call.end)),
                  visaBot |-> VisaBot_isDateInRange(call.dateStr, ParseDate(call.start),
                                                    ParseDate(call.end), tz)]
    /\ UNCHANGED <<globals, envVars, call, progVars, fl, vbOpen, history>>

NextRange == CallIsDateInRange

SpecRange == InitRange /\ [][NextRange]_vars

\* ------------------------------------------------------- the tick delay
\* getDelay called with every positive target rate.
InitDelay ==
    /\ Boot
    /\ today = 1
    /\ tz = 0
    /\ hasVerifyAccount = TRUE
    /\ call \in [targetCPM : 1..MaxCPM]
    /\ result = NULL

CallGetDelay ==
    /\ result = NULL
    /\ result' = getDelay(call.targetCPM)
    /\ UNCHANGED <<globals, envVars, call, progVars, fl, vbOpen, history>>

NextDelay == CallGetDelay

SpecDelay == InitDelay /\ [][NextDelay]_vars

\* ------------------------------------------------ visa-bot.js: VisaBot
\* a step of the VisaBot instance; part_000 and ok.js are other processes
VisaBotStep(b) ==
    /\ bot' = b
    /\ UNCHANGED <<globals, envVars, callVars, checker, okProc, listener, fl, vbOpen, history>>

\* while (this.isRunning) of runMainLoop: createFreshContext is next, or the
\* loop and with it start() ends
MainLoopTop(b) ==
    IF b.isRunning THEN [b EXCEPT !.pc = "ctx"] ELSE [b EXCEPT !.pc = "stopped"]

\* the catch of runMainLoop: count, give up at the limit, else wait 10 s
SessionCatch(b) ==
    LET n == b.consecutiveErrors + 1
    IN  IF n >= maxConsecutiveErrors
        THEN [b EXCEPT !.consecutiveErrors = n, !.pc = "stopped"]
        ELSE [b EXCEPT !.consecutiveErrors = n, !.pc = "wait"]

\* while (this.isRunning) of runMonitoringLoop and the head of its try block
MonitoringTop(b) ==
    IF b.isRunning
    THEN [b EXCEPT !.pc = "mon_busy", !.sessionCheckCount = @ + 1,
                   !.consecutiveErrors = 0]
    ELSE MainLoopTop(b)

RefreshDue_Late(n) == n > contextRefreshInterval

\* if (sessionCheckCount >= CONFIG.bot.contextRefreshInterval) break
RefreshDue(n) == n >= contextRefreshInterval

\* the rest of an iteration after the slot has been handled
AfterCheck(b) ==
    IF RefreshDue(b.sessionCheckCount) THEN MainLoopTop(b)
    ELSE [b EXCEPT !.pc = "mon_delay"]

\* browserManager.initialize() returned or threw
VB_Initialize(ok) ==
    /\ bot.pc = "init"
    /\ VisaBotStep([bot EXCEPT !.pc = IF ok THEN "ctx" ELSE "stopped"])

\* createFreshContext() returned the page of a new context
VB_CreateFreshContext ==
    /\ bot.pc = "ctx"
    /\ VisaBotStep([bot EXCEPT !.pc = "login", !.checksInContext = 0,
                               !.sessionCheckCount = 0])

VB_CreateFreshContextError ==
    /\ bot.pc = "ctx"
    /\ VisaBotStep(SessionCatch(bot))

\* loginHandler.login() returned true
VB_LoginSucceeded ==
    /\ bot.pc = "login"
    /\ VisaBotStep([bot EXCEPT !.pc = "nav", !.loginFailures = 0])

\* it returned false or threw: count; at the limit throw inside the try of
\* runMainLoop, else wait 30 s and continue
VB_LoginFailed ==
    /\ bot.pc = "login"
    /\ LET n == bot.loginFailures + 1
       IN  IF n >= maxLoginRetries
           THEN VisaBotStep(SessionCatch([bot EXCEPT !.loginFailures = n]))
           ELSE VisaBotStep([bot EXCEPT !.loginFailures = n, !.pc = "wait"])

\* waitBeforeRetry returned: the next turn of runMainLoop
VB_WaitDone ==
    /\ bot.pc = "wait"
    /\ VisaBotStep(MainLoopTop(bot))

\* navigateToAppointmentPage() returned: runMonitoringLoop(page), or retry
VB_Navigated(ok) ==
    /\ bot.pc = "nav"
    /\ VisaBotStep(IF ok THEN MonitoringTop(bot) ELSE [bot EXCEPT !.pc = "wait"])

\* checkSystemBusy(page) returned
VB_CheckSystemBusy(busy) ==
    /\ bot.pc = "mon_busy"
    /\ VisaBotStep([bot EXCEPT !.pc = IF busy THEN "mon_busywait" ELSE "mon_check"])

\* the 60 s are over: break, back to runMainLoop
VB_BusyWaitDone ==
    /\ bot.pc = "mon_busywait"
    /\ VisaBotStep(MainLoopTop(bot))

\* slotChecker.checkForSlot() returned a slot inside the window, or not
VB_CheckForSlot(inRange) ==
    /\ bot.pc = "mon_check"
    /\ LET b == [bot EXCEPT !.checksInContext = @ + 1]
       IN  VisaBotStep(IF inRange THEN [b EXCEPT !.pc = "mon_book"] ELSE AfterCheck(b))

\* bookingHandler.performBooking(slot) returned
VB_PerformBooking(booked) ==
    /\ bot.pc = "mon_book"
    /\ VisaBotStep(IF booked THEN MainLoopTop([bot EXCEPT !.isRunning = FALSE])
                   ELSE AfterCheck(bot))

\* page.waitForTimeout(delay) returned
VB_DelayDone ==
    /\ bot.pc = "mon_delay"
    /\ VisaBotStep(MonitoringTop(bot))

\* it threw: the catch of the monitoring loop
VB_DelayThrew ==
    /\ bot.pc = "mon_delay"
    /\ LET n == bot.consecutiveErrors + 1
       IN  VisaBotStep(IF n >= MonitoringErrorLimit THEN MainLoopTop(bot)
                       ELSE MonitoringTop([bot EXCEPT !.consecutiveErrors = n]))

InitVisaBot ==
    /\ Boot
    /\ today = 1
    /\ tz = 0
    /\ hasVerifyAccount = TRUE
    /\ NoCall

NextVisaBot ==
    \/ \E ok \in BOOLEAN : VB_Initialize(ok)
    \/ VB_CreateFreshContext \/ VB_CreateFreshContextError
    \/ VB_LoginSucceeded \/ VB_LoginFailed \/ VB_WaitDone
    \/ \E ok \in BOOLEAN : VB_Navigated(ok)
    \/ \E busy \in BOOLEAN : VB_CheckSystemBusy(busy)
    \/ VB_BusyWaitDone
    \/ \E inRange \in BOOLEAN : VB_CheckForSlot(inRange)
    \/ \E booked \in BOOLEAN : VB_PerformBooking(booked)
    \/ VB_DelayDone \/ VB_DelayThrew

SpecVisaBot == InitVisaBot /\ [][NextVisaBot]_vars

\* -------------------------------------------- visa-bot.js: SlotChecker
SlotCheckerStep(c) ==
    /\ checker' = c
    /\ UNCHANGED <<globals, envVars, callVars, bot, okProc, listener, fl, vbOpen, history>>

ResponseKinds == {"appointments", "empty", "times"}

\* checkForSlot is called: setupResponseListener resets the three fields and
\* registers a new handler; triggerFreshRequest is under way
SC_CheckForSlot ==
    /\ checker.pc = "idle"
    /\ checker.check < MaxSlotChecks
    /\ SlotCheckerStep([checker EXCEPT !.pc = "trigger", !.check = @ + 1,
                                       !.responseReceived = FALSE,
                                       !.lastSlotData = NULL, !.lastTimeData = NULL,
                                       !.listeners = @ + 1])

\* triggerFreshRequest returned (it catches its own errors): the wait begins
SC_TriggerDone ==
    /\ checker.pc = "trigger"
    /\ SlotCheckerStep([checker EXCEPT !.pc = "poll", !.elapsed = 0])

\* the page emits a response while a handler is registered: the handler reads
\* the url and awaits response.json()
SC_Response(kind) ==
    /\ checker.listeners > 0
    /\ Cardinality(checker.pending) < MaxPending
    /\ LET r == [from |-> checker.check, kind |-> kind]
       IN  /\ r \notin checker.pending
           /\ SlotCheckerStep([checker EXCEPT !.pending = @ \cup {r}])

\* response.json() resolved: the rest of the handler runs
SC_JsonResolved(r) ==
    /\ r \in checker.pending
    /\ LET c == [checker EXCEPT !.pending = @ \ {r}]
       IN  SlotCheckerStep(
             CASE r.kind = "appointments" ->
                    [c EXCEPT !.lastSlotData = r.from,
                              !.responseReceived = TRUE]
               [] r.kind = "times" -> [c EXCEPT !.lastTimeData = r.from]
               [] OTHER -> c)

\* response.json() rejected: the catch of the handler ignores it
SC_JsonRejected(r) ==
    /\ r \in checker.pending
    /\ SlotCheckerStep([checker EXCEPT !.pending = @ \ {r}])

\* one 50 ms wait of the loop in checkForSlot
SC_PollStep ==
    /\ checker.pc = "poll"
    /\ ~checker.responseReceived
    /\ checker.elapsed < PollBudget
    /\ SlotCheckerStep([checker EXCEPT !.elapsed = @ + 1])

SC_Return_NoCleanup ==
    /\ checker.pc = "poll"
    /\ checker.responseReceived \/ checker.elapsed >= PollBudget
    /\ SlotCheckerStep([checker EXCEPT !.pc = "idle",
                                       !.returned = checker.lastSlotData,
                                       !.returnedIn = checker.check])

\* the loop ends: return this.lastSlotData, and the finally removes the handler
SC_Return ==
    /\ checker.pc = "poll"
    /\ checker.responseReceived \/ checker.elapsed >= PollBudget
    /\ SlotCheckerStep([checker EXCEPT !.pc = "idle",
                                       !.returned = checker.lastSlotData,
                                       !.returnedIn = checker.check,
                                       !.listeners = @ - 1])

InitSlotChecker == InitVisaBot

NextSlotChecker ==
    \/ SC_CheckForSlot \/ SC_TriggerDone
    \/ \E kind \in ResponseKinds : SC_Response(kind)
    \/ \E r \in checker.pending : SC_JsonResolved(r)
    \/ \E r \in checker.pending : SC_JsonRejected(r)
    \/ SC_PollStep \/ SC_Return

SpecSlotChecker == InitSlotChecker /\ [][NextSlotChecker]_vars

\* ------------------------------------- visa-bot.js: BookingHandler
BookingPollTurns == 50           \* for (let i = 0; i < 50; i++)

\* checkForSlot returned a slot in range: performBooking opens the datepicker,
\* clicks the day, waits 500 ms and enters the loop on getTimeData()
BH_PerformBooking ==
    /\ checker.pc = "idle"
    /\ checker.returned # NULL
    /\ SlotCheckerStep([checker EXCEPT !.pc = "bk_poll", !.i = 0, !.timesArrived = FALSE])

\* the page has a times response during the loop: every registered handler is
\* called with it, and a page without a handler drops it
BH_TimesResponse ==
    /\ checker.pc = "bk_poll"
    /\ ~checker.timesArrived
    /\ LET r == [from |-> checker.check, kind |-> "times"]
       IN  SlotCheckerStep([checker EXCEPT !.timesArrived = TRUE,
                                           !.pending = IF checker.listeners > 0
                                                       THEN @ \cup {r} ELSE @])

\* timeData = getTimeData() is null: wait 100 ms, i++
BH_PollTurn ==
    /\ checker.pc = "bk_poll"
    /\ checker.lastTimeData = NULL /\ checker.i < BookingPollTurns
    /\ SlotCheckerStep([checker EXCEPT !.i = @ + 1])

\* the loop ends: with a time the booking goes on to select and submit it,
\* without one it logs 'No time slot received' and returns false
BH_PollDone ==
    /\ checker.pc = "bk_poll"
    /\ ~(checker.lastTimeData = NULL /\ checker.i < BookingPollTurns)
    /\ SlotCheckerStep([checker EXCEPT !.pc = IF checker.lastTimeData # NULL
                                              THEN "bk_select" ELSE "bk_none",
                                       !.i = 0])

\* performBooking returned
BH_Returned ==
    /\ checker.pc \in {"bk_select", "bk_none"}
    /\ SlotCheckerStep([checker EXCEPT !.pc = "idle", !.returned = NULL,
                                       !.timesArrived = FALSE])

NextBookingHandler ==
    \/ SC_CheckForSlot \/ SC_TriggerDone
    \/ \E kind \in ResponseKinds : SC_Response(kind)
    \/ \E r \in checker.pending : SC_JsonResolved(r)
    \/ \E r \in checker.pending : SC_JsonRejected(r)
    \/ SC_PollStep \/ SC_Return
    \/ BH_PerformBooking \/ BH_TimesResponse \/ BH_PollTurn \/ BH_PollDone \/ BH_Returned

SpecBookingHandler == InitSlotChecker /\ [][NextBookingHandler]_vars

\* ------------------------------------------------------- ok.js: runBot
OkStep(p) ==
    /\ okProc' = p
    /\ UNCHANGED <<globals, envVars, callVars, bot, checker, listener, fl, vbOpen, history>>

OkLoginFailureLimit == 3

\* the main path is past the point of no return: notification, browser.close,
\* then process.exit(code)
OkExiting(p, code) == [p EXCEPT !.pc = "exiting", !.exitArg = code]

\* runBot() is entered: the ban list is read, then the failure counter
OK_RunBot(listed) ==
    /\ okProc.pc = "start"
    /\ OkStep(IF listed THEN OkExiting([okProc EXCEPT !.banned = TRUE], 10)
              ELSE IF okProc.consecutiveLoginFailures >= OkLoginFailureLimit
                   THEN OkExiting([okProc EXCEPT !.banned = TRUE], 1)
                   ELSE [okProc EXCEPT !.pc = "launch"])

\* browser, context and page exist, or the launch threw into the catch of runBot
OK_Launched(ok) ==
    /\ okProc.pc = "launch"
    /\ OkStep([okProc EXCEPT !.pc = IF ok THEN "connect" ELSE "done", !.retryCount = 0])

OkLoginFailure_RetryAtLimit(q) ==
    LET n == q.consecutiveLoginFailures + 1
        p == [q EXCEPT !.consecutiveLoginFailures = n]
    IN  IF n <= OkLoginFailureLimit THEN [p EXCEPT !.pc = "retrywait"]
        ELSE OkExiting([p EXCEPT !.banned = TRUE], 10)

\* login() returned false or threw: count, then retry after 30 s or ban
OkLoginFailure(q) ==
    LET n == q.consecutiveLoginFailures + 1
        p == [q EXCEPT !.consecutiveLoginFailures = n]
    IN  IF n < OkLoginFailureLimit THEN [p EXCEPT !.pc = "retrywait"]
        ELSE OkExiting([p EXCEPT !.banned = TRUE], 10)

OkConnectRetries == 3

\* login(): page.goto answered
OK_Connected ==
    /\ okProc.pc = "connect"
    /\ OkStep([okProc EXCEPT !.pc = "login"])

\* login(): page.goto failed: again after 3 s, the third time the error is thrown
OK_ConnectFailed ==
    /\ okProc.pc = "connect"
    /\ LET n == okProc.retryCount + 1
           p == [okProc EXCEPT !.retryCount = n]
       IN  OkStep(IF n >= OkConnectRetries THEN OkLoginFailure(p) ELSE p)

OK_LoginSucceeded ==
    /\ okProc.pc = "login"
    /\ OkStep([okProc EXCEPT !.pc = "nav", !.consecutiveLoginFailures = 0])

\* login() read the busy text: cooldown file, process.exit(20)
OK_LoginBusy ==
    /\ okProc.pc = "login"
    /\ OkStep(OkExiting([okProc EXCEPT !.cooldown = TRUE], 20))

\* login() read the lock text, before or after submitting: ban, process.exit(10)
OK_LoginLocked ==
    /\ okProc.pc = "login"
    /\ OkStep(OkExiting([okProc EXCEPT !.banned = TRUE], 10))

\* login() threw on the form, or found itself still on the sign-in page
OK_LoginFailed ==
    /\ okProc.pc = "login"
    /\ OkStep(OkLoginFailure(okProc))

OK_RetryWaitDone ==
    /\ okProc.pc = "retrywait"
    /\ OkStep([okProc EXCEPT !.pc = "start"])

\* navigateToAppointmentPage returned: monitoring, or return runBot()
OK_Navigated(ok) ==
    /\ okProc.pc = "nav"
    /\ OkStep([okProc EXCEPT !.pc = IF ok THEN "monitor" ELSE "start"])

\* the page shows a busy text during monitoring: cooldown file, process.exit(20)
OK_MonitorBusy ==
    /\ okProc.pc = "monitor"
    /\ OkStep(OkExiting([okProc EXCEPT !.cooldown = TRUE], 20))

\* a loop error naming the session or the login: return runBot()
OK_SessionExpired ==
    /\ okProc.pc = "monitor"
    /\ OkStep([okProc EXCEPT !.pc = "start"])

\* performBooking returned true: break, runBot returns
OK_Booked ==
    /\ okProc.pc = "monitor"
    /\ OkStep([okProc EXCEPT !.pc = "done"])

\* the process.exit of the main path
OK_Exit ==
    /\ okProc.pc = "exiting"
    /\ OkStep([okProc EXCEPT !.pc = "exited", !.exitCode = okProc.exitArg,
                             !.exitBy = "main"])

\* SIGINT or SIGTERM: shutdown(signal) starts and waits
OK_Signal ==
    /\ okProc.pc # "exited"
    /\ ~okProc.shutdown
    /\ OkStep([okProc EXCEPT !.shutdown = TRUE])

\* shutdown reaches its process.exit(0)
OK_ShutdownExit ==
    /\ okProc.pc # "exited"
    /\ okProc.shutdown
    /\ OkStep([okProc EXCEPT !.pc = "exited", !.exitCode = 0, !.exitBy = "signal"])

\* the uncaughtException / unhandledRejection handlers
OK_UncaughtException ==
    /\ okProc.pc \notin {"exited", "done"}
    /\ OkStep([okProc EXCEPT !.pc = "exited", !.exitCode = 1, !.exitBy = "uncaught"])

InitOk == InitVisaBot

NextOk ==
    \/ \E listed \in BOOLEAN : OK_RunBot(listed)
    \/ \E ok \in BOOLEAN : OK_Launched(ok)
    \/ OK_Connected \/ OK_ConnectFailed
    \/ OK_LoginSucceeded \/ OK_LoginBusy \/ OK_LoginLocked \/ OK_LoginFailed
    \/ OK_RetryWaitDone
    \/ \E ok \in BOOLEAN : OK_Navigated(ok)
    \/ OK_MonitorBusy \/ OK_SessionExpired \/ OK_Booked
    \/ OK_Exit \/ OK_Signal \/ OK_ShutdownExit \/ OK_UncaughtException

SpecOk == InitOk /\ [][NextOk]_vars

\* ------------------------------------------------ ok.js: performBooking
OkTimeWaitTurns == 50            \* while (availableTime === null && timeCounter < 50)

OkBookingPcs == {"bk_wait", "bk_submit"}

OkBookingStep(p, t) ==
    /\ okProc' = p
    /\ availableTime' = t
    /\ UNCHANGED <<availableDate, lastResponseTime, closestSlotFound, bookingInProgress,
                   verifyBrowser, lastVerifyTime, exited, envVars, callVars, bot, checker,
                   listener, fl, vbOpen, history>>

\* the slot is in range: performBooking(page, slotDate) opens the datepicker,
\* clicks the day and waits 500 ms; availableTime keeps the value it has
OK_PerformBooking ==
    /\ okProc.pc = "monitor"
    /\ OkBookingStep([okProc EXCEPT !.pc = "bk_wait", !.timeCounter = 0,
                                     !.timesRequested = TRUE, !.timeSeen = FALSE],
                     availableTime)

\* page.on('response'), url with 'json?date', non-empty available_times
OK_TimesResponse(t) ==
    /\ okProc.pc \in OkBookingPcs \cup {"monitor"}
    /\ okProc.timesRequested
    /\ OkBookingStep([okProc EXCEPT !.timesRequested = FALSE,
                                     !.timeSeen = (okProc.pc \in OkBookingPcs)], t)

\* one turn of the wait for the time
OK_TimeWaitTurn ==
    /\ okProc.pc = "bk_wait"
    /\ availableTime = NULL /\ okProc.timeCounter < OkTimeWaitTurns
    /\ OkBookingStep([okProc EXCEPT !.timeCounter = @ + 1], availableTime)

\* the wait has ended: if (availableTime) select it and submit, else return
\* false and go on monitoring
OK_TimeWaitDone ==
    /\ okProc.pc = "bk_wait"
    /\ ~(availableTime = NULL /\ okProc.timeCounter < OkTimeWaitTurns)
    /\ OkBookingStep([okProc EXCEPT !.pc = IF availableTime # NULL THEN "bk_submit"
                                            ELSE "monitor",
                                     !.timeCounter = 0], availableTime)

\* selectOption and the click on submit returned: return true, break
OK_Submitted ==
    /\ okProc.pc = "bk_submit"
    /\ OkBookingStep([okProc EXCEPT !.pc = "done"], availableTime)

\* a step of performBooking threw: the catch returns false, monitoring goes on
OK_BookingThrew ==
    /\ okProc.pc \in OkBookingPcs
    /\ OkBookingStep([okProc EXCEPT !.pc = "monitor", !.timeCounter = 0], availableTime)

NextOkBooking ==
    \/ OK_RunBot(FALSE) \/ OK_Launched(TRUE) \/ OK_Connected \/ OK_LoginSucceeded
    \/ \E ok \in BOOLEAN : OK_Navigated(ok)
    \/ OK_SessionExpired
    \/ OK_PerformBooking
    \/ \E t \in Times : OK_TimesResponse(t)
    \/ OK_TimeWaitTurn \/ OK_TimeWaitDone \/ OK_Submitted \/ OK_BookingThrew

SpecOkBooking == InitOk /\ [][NextOkBooking]_vars

\* ------------------------------------- part_000: the handler, one response
\* what url.includes('.json'), ('appointments') and ('date=') say of a URL
Urls == [json : BOOLEAN, appointments : BOOLEAN, dateParam : BOOLEAN]

\* what response.json() yields: a non-empty array and its first record's date,
\* an empty array, an object with non-empty available_times and its first
\* entry, another JSON value, or a rejection for a body that is not JSON
Bodies ==
    [kind : {"list"}, first : Dates] \cup [kind : {"times"}, first : Times]
        \cup [kind : {"empty", "object", "garbage"}, first : {NULL}]

IsDatesUrl_AnyJson(url) == url.json /\ url.appointments

\* url.includes('.json') && url.includes('appointments') && !url.includes('date=')
IsDatesUrl(url) == url.json /\ url.appointments /\ ~url.dateParam

\* url.includes('.json') && url.includes('date=')
IsTimesUrl(url) == url.json /\ url.dateParam

\* the handler is called with a response; for a URL of interest it awaits the body
LS_ResponseArrives(f, url, body) ==
    /\ Running
    /\ Listening(f)
    /\ listener.arrived < MaxResponses
    /\ LET n == listener.arrived + 1
           isList == IsDatesUrl(url) /\ body.kind = "list"
       IN  listener' =
             [arrived |-> n,
              latest |-> IF isList THEN body.first ELSE listener.latest,
              pending |-> IF IsDatesUrl(url) \/ IsTimesUrl(url)
                          THEN listener.pending \cup {[seq |-> n, flow |-> f, url |-> url,
                                                      body |-> body]}
                          ELSE listener.pending]
    /\ UNCHANGED <<globals, envVars, callVars, bot, checker, okProc, fl, vbOpen, history>>

\* response.json() settled: the rest of that invocation runs
LS_BodySettled(r) ==
    /\ Running
    /\ r \in listener.pending
    /\ listener' = [listener EXCEPT !.pending = @ \ {r}]
    /\ IF IsDatesUrl(r.url) /\ r.body.kind = "list"
       THEN /\ availableDate' = r.body.first
            /\ lastResponseTime' = now
            /\ closestSlotFound' = TrackClosest(closestSlotFound, r.body.first, today, tz)
            /\ observedMin' = IF r.body.first >= today
                              THEN MinDate(observedMin, r.body.first) ELSE observedMin
            /\ fl' = [fl EXCEPT ![r.flow].heard = TRUE]
       ELSE UNCHANGED <<availableDate, lastResponseTime, closestSlotFound, observedMin, fl>>
    /\ IF IsTimesUrl(r.url) /\ r.body.kind = "times"
       THEN availableTime' = r.body.first
       ELSE UNCHANGED availableTime
    /\ UNCHANGED <<bookingInProgress, verifyBrowser, lastVerifyTime, exited, envVars,
                   callVars, bot, checker, okProc, vbOpen, loginFailStreak,
                   accountLocked>>

InitListener == InitObserver

NextListener ==
    \/ Tick
    \/ \E f \in Flows :
        \/ Launch(f) \/ LoginOk(f) \/ NavigateOk(f)
        \/ \E url \in Urls, body \in Bodies : LS_ResponseArrives(f, url, body)
    \/ \E r \in listener.pending : LS_BodySettled(r)

SpecListener == InitListener /\ [][NextListener]_vars

\* ------------------------------------------- booking without a time value
\* One activation on a site that offers dates but never answers the times
\* request and never fills the time dropdown.  Every awaited step of the flow
\* returns in the end (weak fairness on the steps of the program); what the
\* site sends and what fails is left to the environment.
InitNoTime ==
    /\ Boot
    /\ today = 1
    /\ tz = 0
    /\ hasVerifyAccount = FALSE
    /\ NoCall

ProgramStep(f) ==
    \/ Launch(f) \/ LoginOk(f) \/ NavigateOk(f)
    \/ CookieResetOk(f) \/ ProbeOk(f)
    \/ BusyRead(f, "") \/ BusyClear(f)
    \/ NextCycle(f) \/ TickRequest(f) \/ WaitStep(f) \/ WaitDone(f)
    \/ BookTimePoll(f, NULL) \/ AttemptReturned(f) \/ BookPauseDone(f) \/ BookingExit(f)

NextNoTime ==
    \/ Tick
    \/ \E f \in Flows :
        \/ ProgramStep(f)
        \/ \E d \in Dates : OnDatesResponse(f, d)
        \/ \E b, q \in BOOLEAN : BookThrew(f, b, q)

SpecNoTime ==
    InitNoTime /\ [][NextNoTime]_vars /\ \A f \in Flows : WF_vars(ProgramStep(f))

\* ================================================================ claims

\* C1: the closest-slot tracker never holds a date later than a date that was
\* observed earlier and was today or later on the day it was observed.
C1_TrackerNeverLater ==
    (observedMin # NULL /\ closestSlotFound # NULL) => closestSlotFound <= observedMin

\* C2: a run that reaches the comparison returns stale exactly when both dates
\* are defined and unequal, or the primary is undefined and the secondary is
\* defined; every other pair returns fresh.
C2_VerdictRule ==
    \A f \in Flows :
        fl[f].pc = "v_ret" =>
            LET primary == fl[f].mainDate
                secondary == fl[f].capturedVerifyDate
            IN  (fl[f].dataIsFresh = FALSE) <=>
                    \/ primary # NULL /\ secondary # NULL /\ primary # secondary
                    \/ primary = NULL /\ secondary # NULL

C2_Witness ==
    \E f \in Flows :
        /\ fl[f].pc = "v_ret"
        /\ fl[f].mainDate = NULL
        /\ fl[f].capturedVerifyDate # NULL
        /\ fl[f].dataIsFresh = FALSE

C5_OneBookingPerSession ==
    \A f \in Flows : fl[f].inFlight <= 1

C5_Witness ==
    /\ fl[2].pc # "idle"
    /\ \A f \in Flows : fl[f].inFlight = 1 /\ fl[f].pc \in BookingPcs

\* C6: no verification session is open while an execution of performBooking
\* is in progress.
C6_NoVerifyDuringBooking ==
    \A f, g \in Flows :
        ~(fl[f].inFlight > 0 /\ fl[g].pc \in VerifyPcs /\ vbOpen[g])

\* C7: a verification run that ends without a comparison (login rejected, or
\* anything thrown) returns fresh, and the caller goes on with the same
\* cycle on the same browser: no restart.
C7_FailureIsFresh ==
    [][\A f \in Flows :
          /\ fl'[f].pc \in {"v_ret_rej", "v_ret_err"} => fl'[f].dataIsFresh = TRUE
          /\ (fl[f].pc \in {"v_ret_rej", "v_ret_err"} /\ fl'[f].pc # fl[f].pc)
             => /\ fl'[f].pc \in {"busy", "tick"}
                /\ fl'[f].browser = fl[f].browser
                /\ fl'[f].checkCount = fl[f].checkCount]_vars

C7_Witness ==
    \E f \in Flows :
        /\ fl[f].pc \in {"v_ret_rej", "v_ret_err"}
        /\ fl[f].dataIsFresh = TRUE
        /\ fl[f].browser = "open"

\* C8: when a verification run returns, whatever its outcome, lastVerifyTime
\* is the time of the return.
C8_TimerResetOnReturn ==
    [][\A f \in Flows :
          (fl[f].pc \notin VerifyRetPcs /\ fl'[f].pc \in VerifyRetPcs)
             => lastVerifyTime' = now']_vars

\* C9: on a stale verdict the caller closes the primary browser and the next
\* thing the flow does is runBot() from the start, with no poll tick in
\* between; on a fresh verdict the flow goes on with its cycle on the same
\* browser.
C9_StaleRestartsFreshContinues ==
    [][\A f \in Flows :
          /\ (fl[f].pc \in VerifyRetPcs /\ fl'[f].pc # fl[f].pc)
             => IF fl[f].dataIsFresh = FALSE
                THEN fl'[f].pc = "v_stale" /\ fl'[f].browser = "closed"
                ELSE fl'[f].pc \in {"busy", "tick"} /\ fl'[f].browser = fl[f].browser
          /\ (fl[f].pc = "v_stale" /\ fl'[f].pc # fl[f].pc)
             => fl'[f].pc = "start" /\ fl'[f].browser = "none"]_vars

C9_Witness ==
    \E f \in Flows : fl[f].pc = "v_stale" /\ fl[f].browser = "closed"

\* C10: once the primary credential has failed to log in 3 times in a row, no
\* further login with it is attempted.
C10_NoLoginAfterThreeFailures ==
    \A f \in Flows : ~(fl[f].pc = "login" /\ loginFailStreak >= 3)

\* C11: once the sign-in page has shown 'account is locked', no flow attempts
\* another login with the credential.
C11_NoLoginAfterLock ==
    accountLocked => \A f \in Flows : fl[f].pc # "login"

\* C12: when the last attempt of a booking sequence has failed, the step that
\* ends the sequence releases bookingInProgress and leaves the flow in its
\* monitoring loop on the same browser.
C12_ExhaustionReleasesFlag ==
    [][\A f \in Flows :
        (fl[f].pc = "bk_pause" /\ fl[f].attempt = MaxBookingAttempts
                               /\ fl'[f].pc # "bk_pause")
        => (~bookingInProgress' /\ fl'[f].pc = "delay"
                                /\ fl'[f].browser = fl[f].browser)]_vars

\* C13: once performBooking has returned true, its flow starts no further
\* attempt and no further tick: it closes its browser and the process exits
\* with code 0, after which nothing happens.
C13_SuccessEndsProcess ==
    [][/\ \A f \in Flows :
            /\ (fl[f].pc = "bk_ret" /\ fl[f].booked /\ fl'[f].pc # "bk_ret")
               => (fl'[f].pc = "bk_close" /\ fl'[f].browser = "closed"
                                          /\ fl'[f].inFlight = 0)
            /\ fl[f].pc = "bk_close"
               => (fl'[f] = fl[f] /\ exited' \in {NULL, 0})
       /\ exited = 0 => vars' = vars]_vars

C13_Witness ==
    /\ exited = 0
    /\ \E f \in Flows : fl[f].pc = "bk_close" /\ fl[f].booked /\ fl[f].attempt = 2

C16_BusyTextPauses ==
    [][\A f \in Flows :
        (fl[f].pc = "busy_read"
            /\ fl[f].pageText \in {"system is busy", "too many requests"}
            /\ fl'[f].pc # "busy_read")
        => (fl'[f].pc = "busywait" /\ fl'[f].browser = fl[f].browser
                                   /\ exited' = NULL)]_vars

\* C17: while a flow's verification run is in progress (launch, login,
\* navigation, settle wait, close), the same flow can issue a poll tick.
C17_TicksDuringVerification ==
    \A f \in Flows :
        (exited = NULL /\ fl[f].pc \in VerifyPcs) => ENABLED TickRequest(f)

\* C18: a flow whose browser is lost or has been closed issues no poll tick and
\* starts no execution of performBooking.
C18_NoOpsOnTornDown ==
    [][\A f \in Flows :
        fl[f].browser \in {"lost", "closed"}
        => /\ ~(fl[f].pc = "tick" /\ fl'[f].pc = "wait")
           /\ fl'[f].inFlight <= fl[f].inFlight]_vars

\* C19: the proxy username of a verification session differs from the
\* configured one, which the primary session uses.
C19_VerifyIdentityDiffers ==
    result # <<>> => result # call.username

\* C20: isDateInRange returns true exactly when the slot's calendar day is
\* inside the window, both ends included, in part_000 and in visa-bot.js and
\* in every zone.
C20_InclusiveWindow ==
    result.returned =>
        LET inWindow == call.start <= call.dateStr /\ call.dateStr <= call.end
        IN  (result.part_000 <=> inWindow) /\ (result.visaBot <=> inWindow)

C20_Witness ==
    /\ result.returned
    /\ tz < 0
    /\ call.start < call.end
    /\ call.dateStr = call.end
    /\ result.part_000
    /\ result.visaBot

\* C21: getDelay returns max(0, floor(60000 / targetCPM) - 100), which is never
\* negative, and 150 for a target of 240.
C21_DelayFormula ==
    result # NULL =>
        LET ideal == (MsPerMinute \div call.targetCPM) - 100
        IN  /\ result = (IF ideal > 0 THEN ideal ELSE 0)
            /\ result >= 0
            /\ call.targetCPM = 240 => result = 150

C21_Witness ==
    result = 150 /\ call.targetCPM = 240

\* C22: in visa-bot.js no login is attempted once three logins in a row have
\* failed.
C22_NoLoginAfterThreeFailures ==
    ~(bot.pc = "login" /\ bot.loginFailures >= maxLoginRetries)

\* C23: in visa-bot.js a browser context performs at most contextRefreshInterval
\* slot checks: the count of checks since the context was created never exceeds
\* it, and once it is reached the monitoring loop is left (only the booking of
\* the slot the last check returned may still be pending).
C23_ChecksPerContextBounded ==
    /\ bot.checksInContext <= contextRefreshInterval
    /\ bot.checksInContext <= bot.sessionCheckCount
    /\ bot.pc \in {"mon_busy", "mon_busywait", "mon_check", "mon_delay"}
           => bot.checksInContext < contextRefreshInterval

C23_Witness ==
    bot.pc = "ctx" /\ bot.checksInContext = contextRefreshInterval

\* C24: in visa-bot.js at most one response handler of the SlotChecker is
\* registered on the page at any moment, and none while no call of checkForSlot
\* is running.
C24_ListenersNeverAccumulate ==
    /\ checker.listeners <= 1
    /\ checker.pc = "idle" => checker.listeners = 0

C24_Witness ==
    checker.pc = "idle" /\ checker.check >= 2 /\ checker.listeners = 0

\* C25: in visa-bot.js the value checkForSlot returns is null or comes from a
\* response that the handler of that same call took; a response taken during an
\* earlier call never becomes the result of a later one.
C25_ResultFromSameCheck ==
    checker.returned # NULL => checker.returned = checker.returnedIn

\* C26: in ok.js a process that ends by a signal shutdown ends with code 0, one
\* that ends in the uncaught-error handlers with 1; every other exit follows a
\* ban of the credential (or its discovery in the ban list) and uses 10, or
\* follows a system-busy cooldown and uses 20.
C26_ExitCodes ==
    okProc.pc = "exited" =>
        CASE okProc.exitBy = "signal" -> okProc.exitCode = 0
          [] okProc.exitBy = "uncaught" -> okProc.exitCode = 1
          [] okProc.banned -> okProc.exitCode = 10 /\ ~okProc.cooldown
          [] okProc.cooldown -> okProc.exitCode = 20
          [] OTHER -> FALSE

C26_Witness ==
    /\ okProc.pc = "exited"
    /\ okProc.exitBy = "main"
    /\ okProc.banned
    /\ okProc.consecutiveLoginFailures = OkLoginFailureLimit
    /\ okProc.exitCode = 10

\* C27: a scheduled rotation starts only with no booking in progress and more
\* than 15 minutes after the previous rotation or the session start, and no
\* booking is in progress while it runs; it ends either with the same browser
\* and cycle count back in the monitoring cycle, the rotation time set to now,
\* or with the session replaced by a fresh start.
C27_ScheduledRotation ==
    [][\A f \in Flows :
        /\ (fl[f].pc # "cookie" /\ fl'[f].pc = "cookie") =>
               /\ ~bookingInProgress'
               /\ Elapsed(now', fl'[f].lastCookieReset) > cookieResetIntervalMs
        /\ fl[f].pc = "cookie" => ~bookingInProgress
        /\ (fl[f].pc = "cookie" /\ fl'[f].pc # "cookie") =>
               \/ fl'[f] = Restarted
               \/ /\ fl'[f].browser = "open"
                  /\ fl[f].browser = "open"
                  /\ fl'[f].checkCount = fl[f].checkCount
                  /\ fl'[f].lastCookieReset = now
                  /\ fl'[f].pc \in {"probe", "v_launch", "busy", "tick"}]_vars

\* a rotation has just ended well: a session start sets both timers to the same
\* time, so a verification timer older than the rotation timer tells the two apart
C27_Witness ==
    \E f \in Flows :
        /\ fl[f].pc \in {"probe", "v_launch"}
        /\ fl[f].browser = "open"
        /\ fl[f].lastCookieReset = now
        /\ lastVerifyTime < fl[f].lastCookieReset

\* C28: a cycle whose count is a multiple of the probe period runs the liveness
\* probe (after the rotation, if one is due and succeeds); a probe on a live
\* session goes on with the same cycle, and a probe that fails replaces the
\* session by a fresh start, so no tick is issued in between.
C28_LivenessProbe ==
    [][\A f \in Flows :
        /\ (/\ fl'[f].checkCount # fl[f].checkCount
            /\ fl'[f].checkCount > 0
            /\ fl'[f].checkCount % ProbeEvery = 0) => fl'[f].pc \in {"cookie", "probe"}
        /\ (/\ fl[f].pc = "cookie"
            /\ fl'[f].pc # "cookie"
            /\ fl'[f] # Restarted
            /\ fl[f].checkCount % ProbeEvery = 0) => fl'[f].pc = "probe"
        /\ fl'[f].pc = "probe" => fl'[f].checkCount % ProbeEvery = 0
        /\ (fl[f].pc = "probe" /\ fl'[f].pc # "probe") =>
               IF fl[f].browser = "open"
               THEN /\ fl'[f].pc \in {"v_launch", "busy", "tick"}
                    /\ fl'[f].checkCount = fl[f].checkCount
               ELSE fl'[f] = Restarted]_vars

C28_Witness ==
    \E f \in Flows :
        /\ fl[f].pc = "probe"
        /\ fl[f].browser = "lost"
        /\ fl[f].checkCount = ProbeEvery
        /\ exited = NULL

\* C29: once verifyDataFreshness has returned, and from then on, the
\* verification browser that the run launched is closed.
C29_VerifyBrowserClosed ==
    \A f \in Flows : fl[f].pc \notin VerifyPcs => ~vbOpen[f]

\* C30: waitForAvailableSlot always ends.  While it waits the loop can take a
\* step; it polls at most ceil(timeoutMs / 25) times and only while
\* lastResponseTime is the value captured at the call; and what it returns is the
\* availableDate of the moment it returns, on which the caller books or goes on
\* to the next cycle.
C30_WaitTerminates ==
    [][\A f \in Flows : (fl[f].pc = "wait" /\ exited = NULL) =>
        /\ \E k \in 0..((WaitTimeoutMs + WaitPollMs - 1) \div WaitPollMs) :
               fl[f].elapsed = k * WaitPollMs
        /\ (ENABLED WaitStep(f)) \/ (ENABLED WaitDone(f))
        /\ lastResponseTime # fl[f].prevTime => ~(ENABLED WaitStep(f))
        /\ fl[f].elapsed >= WaitTimeoutMs => ~(ENABLED WaitStep(f))
        /\ fl'[f].pc = "wait" =>
               /\ fl'[f].prevTime = fl[f].prevTime
               /\ fl'[f].elapsed \in {fl[f].elapsed, fl[f].elapsed + WaitPollMs}
        /\ fl'[f].pc # "wait" =>
               IF availableDate # NULL /\ isDateInRange(availableDate, startDate, endDate)
               THEN fl'[f].pc = "bk_time" /\ fl'[f].slot = availableDate
               ELSE fl'[f].pc = "delay"]_vars

C30_Witness ==
    \E f \in Flows :
        /\ fl[f].pc = "wait"
        /\ fl[f].checkCount >= 2
        /\ fl[f].elapsed = WaitTimeoutMs
        /\ lastResponseTime = 0
        /\ exited = NULL

\* C31: the handler changes availableDate, lastResponseTime and closestSlotFound
\* only when the body of a response settles that is a non-empty list from the
\* availability URL without a date parameter; it then sets availableDate to the
\* first record and lastResponseTime to now.  Any other response leaves the three
\* unchanged.
C31_OnlyAvailabilityLists ==
    [][/\ \A r \in listener.pending :
             listener'.pending = listener.pending \ {r} =>
                 IF /\ r.url.json /\ r.url.appointments /\ ~r.url.dateParam
                    /\ r.body.kind = "list"
                 THEN availableDate' = r.body.first /\ lastResponseTime' = now
                 ELSE UNCHANGED <<availableDate, lastResponseTime, closestSlotFound>>
       /\ listener.pending \subseteq listener'.pending =>
             UNCHANGED <<availableDate, lastResponseTime, closestSlotFound>>]_vars

C31_Witness ==
    /\ availableDate = MaxDate
    /\ lastResponseTime = now
    /\ now > 1
    /\ listener.arrived = MaxResponses
    /\ listener.pending = {}

\* C32: once every handler invocation has completed, availableDate holds the
\* first record of the availability list that arrived last, whatever the order
\* in which the bodies were read.
C32_LatestArrivedWins ==
    (listener.pending = {} /\ listener.latest # NULL) => availableDate = listener.latest

\* C33: performBooking returns false when the submission form is on the page
\* after the attempt and true when it is not, whether the attempt ran through
\* or threw (a page that is gone counts as one without the form).
C33_SuccessIffFormAbsent ==
    \A f \in Flows :
        fl[f].pc = "bk_ret" => (fl[f].booked <=> fl[f].formSeen # "present")

\* C34: after any sequence of availability responses the tracker holds exactly
\* the earliest first record that was dated today or later when it was observed,
\* and nothing when there was none.
C34_TrackerIsEarliest == closestSlotFound = observedMin

\* C35: bookingInProgress is true only while a flow is inside the booking
\* attempt loop; at the top of a monitoring cycle and at the start of a session
\* made by a restart it is false.
C35_FlagOnlyWhileBooking ==
    bookingInProgress =>
        \E f \in Flows : fl[f].pc \in BookingPcs \cup {"bk_ret", "bk_close", "bk_pause"}

\* C36: a session enters the booking attempt sequence only for a slot that its
\* own response listener stored; with one session alive, a slot left in the
\* globals by a torn-down session does not start a booking.
C36_BooksOwnObservation ==
    \A f \in Flows :
        (fl[f].pc \in BookingPcs /\ \A g \in Flows \ {f} : fl[g].pc = "idle")
            => fl[f].heard

\* C37: at most one activation of runBot holds a live browser and runs its
\* monitoring loop at any time.
C37_SingleSession ==
    \A f, g \in Flows :
        (/\ fl[f].browser = "open" /\ fl[f].pc \in {"tick", "wait"}
         /\ fl[g].browser = "open" /\ fl[g].pc \in {"tick", "wait"}) => f = g

\* C38: a flow that has entered performBooking eventually leaves the attempt
\* sequence (back in the monitoring loop, or the process has exited), also when
\* no time value ever becomes available.
C38_BookingEnds ==
    \A f \in Flows :
        (fl[f].pc = "bk_time") ~>
            (exited # NULL \/ fl[f].pc \notin BookingPcs \cup {"bk_ret", "bk_close", "bk_pause"})

\* C39: the time that a booking attempt selects and submits was stored after
\* that attempt began; a time stored before it is never submitted (ok.js).
C39_TimeFromThisAttempt == okProc.pc = "bk_submit" => okProc.timeSeen

\* C40: in visa-bot.js a times response that reaches the page while
\* performBooking polls getTimeData() is recorded, so that booking does not end
\* with 'No time slot received'.
C40_TimesRecordedDuringPoll == checker.pc = "bk_none" => ~checker.timesArrived

====
